---------------------------- MODULE Spec2Model ----------------------------
(***************************************************************************)
(* A model of the logparser repository (src/logparser/parsers.py and       *)
(* src/logparser.py): the timestamp parser, the WDD lock extractor, the    *)
(* Oracle error extractor and the folder loop that accumulates both.       *)
(*                                                                         *)
(* Text.  A log line is a sequence of tokens.  A token stands for a piece  *)
(* of text the regular expressions of parsers.py tell apart: the subsystem *)
(* tag, an identifier phrase, the wait-time phrase, the two lock phrases,  *)
(* a bracketed timestamp of the shape the timestamp regex accepts, an      *)
(* ORA-code and other text.  White space between tokens is not             *)
(* represented, except the gap inside a bracketed timestamp.  Each regex   *)
(* is an operator on token sequences that matches what the regex matches.  *)
(***************************************************************************)
EXTENDS Integers, Sequences, FiniteSets, TLC

VARIABLES
    pc,               \* where the run is: the loop or statement being executed, or how it ended
    caller,           \* who called the running extractor: "direct" or "process_folder"
    file_path,        \* the file_path argument of the running extractor
    lines,            \* history: the lines read so far by a directly called function
    returned,         \* the value a directly called function returned
    current_del_id,   \* extract_wdd_lock_info: parsers.py:68
    wait_time_line,   \*                        parsers.py:69
    wait_timestamp,   \*                        parsers.py:70
    results,          \*                        parsers.py:67
    errors,           \* extract_oracle_errors: parsers.py:23
    line_num,         \*                        parsers.py:30
    all_results,          \* process_folder: logparser.py:52
    all_oracle_errors,    \*                 logparser.py:53
    files_processed,      \*                 logparser.py:54
    oracle_errors,        \*                 logparser.py:73
    read,             \* history: the number of lines the running scan has read
    total,            \* history: the number of lines the run has read from all files
    emitted,          \* history: where each lock record of the run came from
    ahead,            \* history: what extract_oracle_errors will find in the lines
                      \* the lock scan of process_folder has read from the file
    scanned,          \* history: the lines read from each file of a folder run,
                      \* in the runs that keep it
    search_id,        \* extract_id_traces: parsers.py:135
    first_occurrence, \*                    parsers.py:147
    last_occurrence,  \*                    parsers.py:148
    all_lines,        \*                    parsers.py:149
    folder,           \* what is on the disk at folder_path, logparser.py:46-58
    output_path,      \* process_folder: logparser.py:33
    generate_reports, \*                 logparser.py:33
    stats,            \*                 logparser.py:83
    created,          \* the output files and directories the run has created
    csv,              \* the rows written to the CSV file, logparser.py:108-111
    console,          \* the notices printed
    exit_status,      \* the status sys.exit was called with
    files_with_id     \* extract_id_from_folder: logparser.py:141

lockVars == <<current_del_id, wait_time_line, wait_timestamp, results>>
oraVars == <<errors, line_num>>
folderVars == <<all_results, all_oracle_errors, files_processed, oracle_errors>>
traceVars == <<search_id, first_occurrence, last_occurrence, all_lines>>
runVars ==
    <<folder, output_path, generate_reports, stats, created, csv, console,
      exit_status>>
vars == <<pc, caller, file_path, lines, returned, lockVars, oraVars, folderVars,
          read, total, emitted, ahead, scanned, traceVars, runVars, files_with_id>>

(***************************************************************************)
(* Python values                                                           *)
(***************************************************************************)
None == [k |-> "None"]
ValueError == [k |-> "ValueError"]
\* a str held where None may be held too
Str(s) == [k |-> "str", s |-> s]

Last(s) == s[Len(s)]

(***************************************************************************)
(* Tokens                                                                  *)
(***************************************************************************)
\* "WMS_XDock_Pegging_Pub:"
Tag == [k |-> "tag"]
\* "Del Id:<digits>"
Del(d) == [k |-> "del", id |-> d]
\* "wdd update wait time:<digits>"
Wait == [k |-> "wait"]
\* "Could not lock the WDD demand line record"
Fail == [k |-> "fail"]
\* "RM - Got WDD lock"
Succ == [k |-> "succ"]
\* any other text, n characters of it
Txt(n) == [k |-> "text", n |-> n]
\* "[dd-MON-yy<gap white space>hh:mi:ss]": two digits, three capitals, two
\* digits, white space, three pairs of digits.  The fields are numbers
\* 0..99, the month the three capitals.
Stamp(dd, mon, yy, gap, hh, mi, ss) ==
    [k |-> "stamp", dd |-> dd, mon |-> mon, yy |-> yy, gap |-> gap,
     hh |-> hh, mi |-> mi, ss |-> ss]

(***************************************************************************)
(* datetime                                                                *)
(***************************************************************************)
\* %b of the C locale, as strptime reads it from capitals
MonthNumber ==
    [JAN |-> 1, FEB |-> 2, MAR |-> 3, APR |-> 4, MAY |-> 5, JUN |-> 6,
     JUL |-> 7, AUG |-> 8, SEP |-> 9, OCT |-> 10, NOV |-> 11, DEC |-> 12]

\* %b of the C locale, as strftime writes it
MonthAbbr ==
    <<"Jan", "Feb", "Mar", "Apr", "May", "Jun",
      "Jul", "Aug", "Sep", "Oct", "Nov", "Dec">>

IsLeap(y) == (y % 4 = 0) /\ ((y % 100 # 0) \/ (y % 400 = 0))

DaysInMonth(y, m) ==
    IF m = 2 THEN (IF IsLeap(y) THEN 29 ELSE 28)
    ELSE IF m \in {4, 6, 9, 11} THEN 30 ELSE 31

DaysBeforeMonth(y, m) ==
    LET cum == <<0, 31, 59, 90, 120, 151, 181, 212, 243, 273, 304, 334>>
    IN  cum[m] + (IF m > 2 /\ IsLeap(y) THEN 1 ELSE 0)

\* datetime.toordinal(): days since 0001-01-01, that day being 1
ToOrdinal(dt) ==
    LET y == dt.year - 1
    IN  y * 365 + (y \div 4) - (y \div 100) + (y \div 400)
          + DaysBeforeMonth(dt.year, dt.month) + dt.day

SecondOfDay(dt) == dt.hour * 3600 + dt.minute * 60 + dt.second

datetime(y, mo, d, h, mi, s) ==
    [k |-> "datetime", year |-> y, month |-> mo, day |-> d,
     hour |-> h, minute |-> mi, second |-> s]

\* datetime.strptime(text, '%d-%b-%y %H:%M:%S') on the text of a bracketed
\* timestamp: the value, or ValueError when a field is out of range
strptime(s) ==
    LET year == IF s.yy <= 68 THEN 2000 + s.yy ELSE 1900 + s.yy
    IN  IF /\ s.mon \in DOMAIN MonthNumber
           /\ s.dd >= 1 /\ s.dd <= 31
           /\ s.hh <= 23 /\ s.mi <= 59 /\ s.ss <= 61
           /\ s.dd <= DaysInMonth(year, MonthNumber[s.mon])
           /\ s.ss <= 59
        THEN datetime(year, MonthNumber[s.mon], s.dd, s.hh, s.mi, s.ss)
        ELSE ValueError

\* strftime with the hour of the 12-hour clock (%I for %H)
strftime_12_hour(dt) ==
    [dd |-> dt.day, mon |-> MonthAbbr[dt.month], yy |-> dt.year % 100,
     gap |-> 1, hh |-> dt.hour % 12, mi |-> dt.minute, ss |-> dt.second]

\* dt.strftime('%d-%b-%y %H:%M:%S'): the text, as the fields of a timestamp
\* without brackets
strftime(dt) ==
    [dd |-> dt.day, mon |-> MonthAbbr[dt.month], yy |-> dt.year % 100,
     gap |-> 1, hh |-> dt.hour, mi |-> dt.minute, ss |-> dt.second]

\* (a - b).total_seconds()
total_seconds(a, b) ==
    (ToOrdinal(a) - ToOrdinal(b)) * 86400 + (SecondOfDay(a) - SecondOfDay(b))

Min(S) == CHOOSE x \in S : \A y \in S : x <= y

\* re.search(r'\[(\d{2}-[A-Z]{3}-\d{2}\s+\d{2}:\d{2}:\d{2})\]', line): the
\* position of the leftmost bracketed text of that shape, 0 when there is none
timestamp_match(line) ==
    LET m == {i \in 1..Len(line) : line[i].k = "stamp"}
    IN  IF m # {} THEN Min(m) ELSE 0

parse_timestamp(line) ==
    LET match == timestamp_match(line)
    IN  IF match # 0 THEN strptime(line[match]) ELSE None

(***************************************************************************)
(* extract_wdd_lock_info                                                   *)
(***************************************************************************)
\* re.compile(r'WMS_XDock_Pegging_Pub:').search(line)
xdock_pattern(line) == \E i \in 1..Len(line) : line[i] = Tag

\* re.compile(r'WMS_XDock_Pegging_Pub:\s*Del Id:(\d+)').search(line): the
\* identifier phrase right after a tag; group(1) of the leftmost match, or None
del_id_pattern(line) ==
    LET m == {i \in 1..(Len(line) - 1) : line[i] = Tag /\ line[i + 1].k = "del"}
    IN  IF m # {} THEN [k |-> "match", group1 |-> Str(line[Min(m) + 1].id)] ELSE None

\* a tag and, anywhere after it on the line, a token of kind k
after_tag(line, k) ==
    \E i \in 1..Len(line) : \E j \in (i + 1)..Len(line) :
        line[i] = Tag /\ line[j].k = k

\* re.compile(r'WMS_XDock_Pegging_Pub:.*wdd update wait time:(\d+)').search(line)
wait_time_pattern(line) == after_tag(line, "wait")

\* re.compile(r'WMS_XDock_Pegging_Pub:.*Could not lock the WDD demand line record')
lock_fail_pattern(line) == after_tag(line, "fail")

\* re.compile(r'WMS_XDock_Pegging_Pub:.*RM - Got WDD lock').search(line)
lock_success_pattern(line) == after_tag(line, "succ")

\* os.path.basename(file_path)
basename(path) == path.name

\* time_diff with a negative difference clamped to zero
time_diff_clamped(result_timestamp, wait_ts) ==
    IF total_seconds(result_timestamp, wait_ts) < 0 THEN 0
    ELSE total_seconds(result_timestamp, wait_ts)

\* (result_timestamp - wait_timestamp).total_seconds()
time_diff(result_timestamp, wait_ts) == total_seconds(result_timestamp, wait_ts)

\* lock_record with the result of the failure branch in both branches
lock_record_always_failed(del_id, wait_ts, result_timestamp, result, path) ==
    [del_id |-> del_id,
     wait_start |-> strftime(wait_ts),
     result_time |-> strftime(result_timestamp),
     time_diff_seconds |-> total_seconds(result_timestamp, wait_ts),
     result |-> "LOCK FAILED",
     file |-> basename(path)]

\* lock_record with the wait timestamp formatted into result_time
lock_record_wait_as_result(del_id, wait_ts, result_timestamp, result, path) ==
    [del_id |-> del_id,
     wait_start |-> strftime(wait_ts),
     result_time |-> strftime(wait_ts),
     time_diff_seconds |-> total_seconds(result_timestamp, wait_ts),
     result |-> result,
     file |-> basename(path)]

\* the dict appended to results
lock_record(del_id, wait_ts, result_timestamp, result, path) ==
    [del_id |-> del_id,
     wait_start |-> strftime(wait_ts),
     result_time |-> strftime(result_timestamp),
     time_diff_seconds |-> time_diff(result_timestamp, wait_ts),
     result |-> result,
     file |-> basename(path)]

\* takes_wait without "and current_del_id"
takes_wait_without_id(line) == wait_time_pattern(line)

\* the conditions of the loop body, in the order the code tests them.  An
\* identifier is a non-empty string of digits and a datetime is never false,
\* so each "and x" of the code is "x is not None".
takes_del(line) == del_id_pattern(line) # None
takes_wait(line) == wait_time_pattern(line) /\ current_del_id # None
takes_fail(line) ==
    lock_fail_pattern(line) /\ current_del_id # None /\ wait_timestamp # None
takes_success(line) ==
    lock_success_pattern(line) /\ current_del_id # None /\ wait_timestamp # None

(***************************************************************************)
(* extract_oracle_errors                                                   *)
(***************************************************************************)
\* "<pre>-<code><sep>": pre is ORA in some letter case, code five digits,
\* sep the character after them: ":", " " or "" (another character, or the
\* end of the line)
Ora(pre, code, sep) == [k |-> "ora", pre |-> pre, code |-> code, sep |-> sep]
\* "<name>:", name a word (with dots and underscores)
Ctx(name) == [k |-> "ctx", name |-> name]
\* the "..." that marks a cut line
Dots == [k |-> "dots"]

\* len() of a token's text
TokLen(t) ==
    CASE t.k = "tag" -> 22
      [] t.k = "del" -> 7 + Len(t.id)
      [] t.k = "wait" -> 22
      [] t.k = "fail" -> 41
      [] t.k = "succ" -> 17
      [] t.k = "text" -> t.n
      [] t.k = "part" -> t.n
      [] t.k = "stamp" -> 19 + t.gap
      [] t.k = "ora" -> 9 + Len(t.sep)
      [] t.k = "ctx" -> Len(t.name) + 1
      [] t.k = "dots" -> 3

RECURSIVE LineLen(_)
\* len(line)
LineLen(line) ==
    IF line = <<>> THEN 0 ELSE TokLen(line[1]) + LineLen(Tail(line))

RECURSIVE Take(_, _)
\* line[:n]: a token the cut falls in is kept as the part before the cut
Take(line, n) ==
    IF line = <<>> \/ n <= 0 THEN <<>>
    ELSE IF TokLen(line[1]) <= n
         THEN <<line[1]>> \o Take(Tail(line), n - TokLen(line[1]))
         ELSE <<[k |-> "part", of |-> line[1], n |-> n]>>

\* re.compile(r'(ORA-(\d{5})[:\s].*?)(?:\n|$)', re.IGNORECASE).search(line):
\* the position of the leftmost ORA-code followed by ":" or white space, in
\* any letter case; 0 when there is none
ora_pattern(line) ==
    LET m == {i \in 1..Len(line) : line[i].k = "ora" /\ line[i].sep \in {":", " "}}
    IN  IF m # {} THEN Min(m) ELSE 0

\* re.compile(r'\]\s*(\w+(?:\.\w+)*(?:_\w+)*):').search(line): group(1) of
\* the leftmost "]" that a word and a colon follow, or None.  The tokens that
\* end in "]" are the bracketed timestamps; the tokens that are a word and a
\* colon are the tag and Ctx.
context_pattern(line) ==
    LET m == {i \in 1..(Len(line) - 1) :
                 line[i].k = "stamp" /\ line[i + 1].k \in {"tag", "ctx"}}
        t == line[Min(m) + 1]
    IN  IF m = {} THEN None
        ELSE [k |-> "match",
              group1 |-> IF t.k = "tag" THEN "WMS_XDock_Pegging_Pub" ELSE t.name]

\* the string 'N/A'
NA == Str("N/A")

\* full_line with "len(line) >= 200"
full_line_marks_200(line) ==
    IF LineLen(line) >= 200 THEN Append(Take(line, 200), Dots) ELSE line

\* line[:200] + '...' if len(line) > 200 else line
full_line(line) ==
    IF LineLen(line) > 200 THEN Append(Take(line, 200), Dots) ELSE line

\* the dict appended to errors
oracle_record(line, n, path) ==
    LET ora_match == ora_pattern(line)
        timestamp == parse_timestamp(line)
        context_match == context_pattern(line)
    IN  [error_code |-> "ORA-" \o line[ora_match].code,
         message |-> SubSeq(line, ora_match, Len(line)),
         timestamp |-> IF timestamp # None THEN strftime(timestamp) ELSE NA,
         line_number |-> n,
         context |-> IF context_match # None THEN context_match.group1
                     ELSE "Unknown",
         file |-> basename(path),
         full_line |-> full_line(line)]

\* oracle_line without the test for the excluded code
oracle_line_no_exclusion(errs, n, line, path) ==
    LET ora_match == ora_pattern(line)
    IN  IF ora_match = 0
        THEN [errors |-> errs, line_num |-> n + 1, raised |-> FALSE]
        ELSE IF parse_timestamp(line) = ValueError
        THEN [errors |-> errs, line_num |-> n + 1, raised |-> TRUE]
        ELSE [errors |-> Append(errs, oracle_record(line, n + 1, path)),
              line_num |-> n + 1, raised |-> FALSE]

\* oracle_line that skips the excluded code only on a line with no other code
oracle_line_skips_lone_code(errs, n, line, path) ==
    LET ora_match == ora_pattern(line)
        codes == {line[i].code : i \in {j \in 1..Len(line) : line[j].k = "ora"}}
    IN  IF ora_match = 0 \/ codes = {"01403"}
        THEN [errors |-> errs, line_num |-> n + 1, raised |-> FALSE]
        ELSE IF parse_timestamp(line) = ValueError
        THEN [errors |-> errs, line_num |-> n + 1, raised |-> TRUE]
        ELSE [errors |-> Append(errs, oracle_record(line, n + 1, path)),
              line_num |-> n + 1, raised |-> FALSE]

\* oracle_line that does not count the lines skipped for the excluded code
oracle_line_uncounted_skip(errs, n, line, path) ==
    LET ora_match == ora_pattern(line)
    IN  IF ora_match = 0
        THEN [errors |-> errs, line_num |-> n + 1, raised |-> FALSE]
        ELSE IF line[ora_match].code = "01403"
        THEN [errors |-> errs, line_num |-> n, raised |-> FALSE]
        ELSE IF parse_timestamp(line) = ValueError
        THEN [errors |-> errs, line_num |-> n + 1, raised |-> TRUE]
        ELSE [errors |-> Append(errs, oracle_record(line, n + 1, path)),
              line_num |-> n + 1, raised |-> FALSE]

\* what one pass of the loop body does to errors and line_num, and whether
\* parse_timestamp raised in it
oracle_line(errs, n, line, path) ==
    LET ora_match == ora_pattern(line)
    IN  IF ora_match = 0 \/ line[ora_match].code = "01403"
        THEN [errors |-> errs, line_num |-> n + 1, raised |-> FALSE]
        ELSE IF parse_timestamp(line) = ValueError
        THEN [errors |-> errs, line_num |-> n + 1, raised |-> TRUE]
        ELSE [errors |-> Append(errs, oracle_record(line, n + 1, path)),
              line_num |-> n + 1, raised |-> FALSE]

(***************************************************************************)
(* Bounds and inputs                                                       *)
(***************************************************************************)
\* lines of a file scanned by a directly called extractor
MaxLines == 4
\* lines of all the files of a folder run
MaxFolderLines == 6
\* files of a folder run
MaxFiles == 2

\* lines of all the files of a folder run that keeps the lines it read
MaxRunLines == 3

MayRead ==
    IF caller = "direct" THEN read < MaxLines
    ELSE IF scanned.keep THEN total < MaxRunLines
    ELSE total < MaxFolderLines

\* three timestamps in the log's format, and one of the right shape that is
\* no date
T1 == Stamp(31, "DEC", 23, 1, 23, 59, 58)
T2 == Stamp(1, "JAN", 24, 1, 0, 0, 5)
T3 == Stamp(1, "JAN", 24, 2, 0, 0, 9)
BadStamp == Stamp(32, "JAN", 24, 1, 10, 0, 0)

\* the file a directly called extractor reads
DirectPath == [dir |-> "logs", name |-> 1]
\* str(log_file) of the i-th file of the glob
LogFile(i) == [dir |-> "logs", name |-> i]

\* the history of a run that keeps none, and of one that keeps it, at its start
NoHistory == [keep |-> FALSE, files |-> <<>>]
KeptHistory == [keep |-> TRUE, files |-> <<>>]
\* the history when the scan of the next file starts
NextFile ==
    IF scanned.keep THEN [scanned EXCEPT !.files = Append(@, <<>>)] ELSE scanned

\* the oracle scan of a file before its first line
OracleStart == [errors |-> <<>>, line_num |-> 0, raised |-> FALSE]

(***************************************************************************)
(* extract_wdd_lock_info: the loop, one action per branch of its body      *)
(***************************************************************************)
\* for line in f: the line is read.  A directly called scan keeps it; in
\* process_folder the file is read again by extract_oracle_errors, and what
\* that scan will do with the line is kept instead.
ReadLine(line) ==
    /\ read' = read + 1
    /\ total' = total + 1
    /\ lines' = IF caller = "direct" THEN Append(lines, line) ELSE lines
    /\ ahead' = IF caller = "process_folder" /\ ~ahead.raised
                THEN oracle_line(ahead.errors, ahead.line_num, line, file_path)
                ELSE ahead
    /\ scanned' = IF scanned.keep
                  THEN [scanned EXCEPT !.files[Len(scanned.files)] = Append(@, line)]
                  ELSE scanned

LockFrame ==
    UNCHANGED <<caller, file_path, returned, oraVars, folderVars, traceVars,
                runVars, files_with_id>>

\* current_del_id = None; wait_time_line = None; wait_timestamp = None
reset_state ==
    /\ current_del_id' = None
    /\ wait_time_line' = None
    /\ wait_timestamp' = None

\* SkipLine that clears the parse state
SkipLine_resets(line) ==
    /\ pc = "lock"
    /\ MayRead
    /\ ~xdock_pattern(line)
    /\ ReadLine(line)
    /\ reset_state
    /\ UNCHANGED <<pc, results, emitted>>
    /\ LockFrame

\* parsers.py:82-83
SkipLine(line) ==
    /\ pc = "lock"
    /\ MayRead
    /\ ~xdock_pattern(line)
    /\ ReadLine(line)
    /\ UNCHANGED <<pc, lockVars, emitted>>
    /\ LockFrame

\* DelIdLine that keeps the pending wait line and timestamp
DelIdLine_keeps_wait(line) ==
    /\ pc = "lock"
    /\ MayRead
    /\ xdock_pattern(line)
    /\ takes_del(line)
    /\ ReadLine(line)
    /\ current_del_id' = del_id_pattern(line).group1
    /\ UNCHANGED <<pc, wait_time_line, wait_timestamp, results, emitted>>
    /\ LockFrame

\* parsers.py:85-90
DelIdLine(line) ==
    /\ pc = "lock"
    /\ MayRead
    /\ xdock_pattern(line)
    /\ takes_del(line)
    /\ ReadLine(line)
    /\ current_del_id' = del_id_pattern(line).group1
    /\ wait_time_line' = None
    /\ wait_timestamp' = None
    /\ UNCHANGED <<pc, results, emitted>>
    /\ LockFrame

\* parsers.py:92-96
WaitTimeLine(line) ==
    /\ pc = "lock"
    /\ MayRead
    /\ xdock_pattern(line)
    /\ ~takes_del(line)
    /\ takes_wait(line)
    /\ parse_timestamp(line) # ValueError
    /\ ReadLine(line)
    /\ wait_time_line' = line
    /\ wait_timestamp' = parse_timestamp(line)
    /\ UNCHANGED <<pc, current_del_id, results, emitted>>
    /\ LockFrame

\* emit_and_reset without the three assignments after the record
emit_and_keep_state(line, result) ==
    LET result_timestamp == parse_timestamp(line)
        rec == lock_record(current_del_id, wait_timestamp, result_timestamp,
                           result, file_path)
    IN  /\ IF result_timestamp # None
           THEN /\ results' = Append(results, rec)
                /\ emitted' = Append(emitted,
                       [file |-> files_processed + 1, line |-> read + 1, rec |-> rec])
           ELSE UNCHANGED <<results, emitted>>
        /\ UNCHANGED <<current_del_id, wait_time_line, wait_timestamp>>

\* the body of "if result_timestamp:" and the reset after it
emit_and_reset(line, result) ==
    LET result_timestamp == parse_timestamp(line)
        rec == lock_record(current_del_id, wait_timestamp, result_timestamp,
                           result, file_path)
    IN  /\ IF result_timestamp # None
           THEN /\ results' = Append(results, rec)
                /\ emitted' = Append(emitted,
                       [file |-> files_processed + 1, line |-> read + 1, rec |-> rec])
           ELSE UNCHANGED <<results, emitted>>
        /\ reset_state

\* parsers.py:98-113
LockFailLine(line) ==
    /\ pc = "lock"
    /\ MayRead
    /\ xdock_pattern(line)
    /\ ~takes_del(line)
    /\ ~takes_wait(line)
    /\ takes_fail(line)
    /\ parse_timestamp(line) # ValueError
    /\ ReadLine(line)
    /\ emit_and_reset(line, "LOCK FAILED")
    /\ UNCHANGED pc
    /\ LockFrame

\* parsers.py:115-130
LockSuccessLine(line) ==
    /\ pc = "lock"
    /\ MayRead
    /\ xdock_pattern(line)
    /\ ~takes_del(line)
    /\ ~takes_wait(line)
    /\ ~takes_fail(line)
    /\ takes_success(line)
    /\ parse_timestamp(line) # ValueError
    /\ ReadLine(line)
    /\ emit_and_reset(line, "LOCK SUCCESS")
    /\ UNCHANGED pc
    /\ LockFrame

\* UnmatchedLine that resets the state
UnmatchedLine_resets(line) ==
    /\ pc = "lock"
    /\ MayRead
    /\ xdock_pattern(line)
    /\ ~takes_del(line)
    /\ ~takes_wait(line)
    /\ ~takes_fail(line)
    /\ ~takes_success(line)
    /\ ReadLine(line)
    /\ reset_state
    /\ UNCHANGED <<pc, results, emitted>>
    /\ LockFrame

\* a tagged line none of the four branches takes: the loop goes on
UnmatchedLine(line) ==
    /\ pc = "lock"
    /\ MayRead
    /\ xdock_pattern(line)
    /\ ~takes_del(line)
    /\ ~takes_wait(line)
    /\ ~takes_fail(line)
    /\ ~takes_success(line)
    /\ ReadLine(line)
    /\ UNCHANGED <<pc, lockVars, emitted>>
    /\ LockFrame

\* parsers.py:95, 99, 116: parse_timestamp raises ValueError, which nothing
\* catches: the scan, and the run that called it, end with the exception
LockTimestampRaises(line) ==
    /\ pc = "lock"
    /\ MayRead
    /\ xdock_pattern(line)
    /\ ~takes_del(line)
    /\ takes_wait(line) \/ takes_fail(line) \/ takes_success(line)
    /\ parse_timestamp(line) = ValueError
    /\ ReadLine(line)
    /\ pc' = "raised"
    /\ UNCHANGED <<lockVars, emitted>>
    /\ LockFrame

\* parsers.py:132: the file has ended
ReturnResults ==
    /\ pc = "lock"
    /\ IF caller = "direct"
       THEN returned' = results /\ pc' = "done"
       ELSE returned' = returned /\ pc' = "extend_results"
    /\ UNCHANGED <<caller, file_path, lines, lockVars, oraVars, folderVars,
                   read, total, emitted, ahead, scanned, traceVars, runVars,
                   files_with_id>>

(***************************************************************************)
(* A file scanned by extract_wdd_lock_info, called directly                *)
(***************************************************************************)
DelIds == {"100", "200"}

\* the lines a scanned file is made of: untagged lines (one with every
\* phrase on it), the two identifier markers, wait-time and lock-result
\* markers with and without a timestamp, in and out of time order, and a
\* wait-time marker and a failure marker whose timestamp is no date
LockLines ==
    {<<Txt(10)>>, <<T1, Del("200"), Wait, Fail, Succ>>}
    \cup {<<T1, Tag, Del(d)>> : d \in DelIds}
    \cup {<<Tag, Wait>>, <<T1, Tag, Wait>>, <<T2, Tag, Wait>>, <<BadStamp, Tag, Wait>>}
    \cup {<<Tag, Fail>>, <<T1, Tag, Fail>>, <<T2, Tag, Fail>>, <<BadStamp, Tag, Fail>>}
    \cup {<<Tag, Succ>>, <<T3, Tag, Succ>>}

InitCommon ==
    /\ returned = None
    /\ current_del_id = None
    /\ wait_time_line = None
    /\ wait_timestamp = None
    /\ results = <<>>
    /\ errors = <<>>
    /\ line_num = 0
    /\ all_results = <<>>
    /\ all_oracle_errors = <<>>
    /\ files_processed = 0
    /\ oracle_errors = <<>>
    /\ read = 0
    /\ total = 0
    /\ emitted = <<>>
    /\ ahead = OracleStart
    /\ first_occurrence = None
    /\ last_occurrence = None
    /\ all_lines = <<>>
    /\ stats = None
    /\ created = {}
    /\ csv = <<>>
    /\ console = <<>>
    /\ exit_status = None
    /\ files_with_id = 0

\* what a call of one function of parsers.py, and the loop of process_folder
\* taken alone, do not use
NoArguments ==
    /\ scanned = NoHistory
    /\ folder = "has_files"
    /\ search_id = None
    /\ output_path = None
    /\ generate_reports = TRUE

InitLock ==
    /\ lines = <<>>
    /\ pc = "lock"
    /\ caller = "direct"
    /\ file_path = DirectPath
    /\ InitCommon
    /\ NoArguments

NextLock ==
    \/ \E line \in LockLines :
        \/ SkipLine(line)
        \/ DelIdLine(line)
        \/ WaitTimeLine(line)
        \/ LockFailLine(line)
        \/ LockSuccessLine(line)
        \/ UnmatchedLine(line)
        \/ LockTimestampRaises(line)
    \/ ReturnResults

SpecLock == InitLock /\ [][NextLock]_vars

(***************************************************************************)
(* extract_oracle_errors: the loop, one action per branch of its body      *)
(***************************************************************************)
OracleFrame ==
    UNCHANGED <<caller, file_path, returned, lockVars, folderVars, emitted,
                traceVars, runVars, files_with_id>>

\* errors, line_num and pc after the loop body has run on line
OracleBody(line) ==
    LET after == oracle_line(errors, line_num, line, file_path)
    IN  /\ errors' = after.errors
        /\ line_num' = after.line_num
        /\ pc' = IF after.raised THEN "raised" ELSE pc

\* parsers.py:35-36: the line holds no ORA-code followed by a separator
NoErrorLine(line) ==
    /\ pc = "oracle"
    /\ MayRead
    /\ ora_pattern(line) = 0
    /\ ReadLine(line)
    /\ OracleBody(line)
    /\ OracleFrame

\* parsers.py:37-40: the leftmost match is the excluded code
ExcludedLine(line) ==
    /\ pc = "oracle"
    /\ MayRead
    /\ ora_pattern(line) # 0
    /\ line[ora_pattern(line)].code = "01403"
    /\ ReadLine(line)
    /\ OracleBody(line)
    /\ OracleFrame

\* parsers.py:42-57
ErrorLine(line) ==
    /\ pc = "oracle"
    /\ MayRead
    /\ ora_pattern(line) # 0
    /\ line[ora_pattern(line)].code # "01403"
    /\ parse_timestamp(line) # ValueError
    /\ ReadLine(line)
    /\ OracleBody(line)
    /\ OracleFrame

\* parsers.py:43: parse_timestamp raises ValueError, which nothing catches
OracleTimestampRaises(line) ==
    /\ pc = "oracle"
    /\ MayRead
    /\ ora_pattern(line) # 0
    /\ line[ora_pattern(line)].code # "01403"
    /\ parse_timestamp(line) = ValueError
    /\ ReadLine(line)
    /\ OracleBody(line)
    /\ OracleFrame

\* parsers.py:59: the file has ended
ReturnErrors ==
    /\ pc = "oracle"
    /\ returned' = errors
    /\ pc' = "done"
    /\ UNCHANGED <<caller, file_path, lines, lockVars, oraVars, folderVars,
                   read, total, emitted, ahead, scanned, traceVars, runVars,
                   files_with_id>>

(***************************************************************************)
(* A file scanned by extract_oracle_errors, called directly                *)
(***************************************************************************)
\* lines without a code, with one code, with the excluded code in either
\* letter case, with the excluded code and another one in both orders, with
\* a code no separator follows, with a timestamp that is no date, and of
\* 200 and of 201 characters
OracleLines ==
    {<<Txt(10)>>,
     <<Ora("ORA", "00001", ":"), Txt(18)>>,
     <<T2, Tag, Ora("ora", "00060", " "), Txt(8)>>,
     <<Ora("ORA", "01403", ":"), Txt(14)>>,
     <<T1, Ora("ora", "01403", " "), Txt(5), Ora("ORA", "00001", ":")>>,
     <<T1, Ctx("pkg.proc"), Ora("ORA", "00001", ":"), Txt(5), Ora("ORA", "01403", ":")>>,
     <<Ora("ORA", "01403", ""), Txt(2), Ora("ORA", "00904", ":")>>,
     <<Txt(4), Ora("ORA", "01403", "")>>,
     <<BadStamp, Ora("ORA", "00001", ":")>>,
     <<BadStamp, Ora("ORA", "01403", ":")>>,
     <<T3, Ora("ORA", "12899", ":"), Txt(169)>>,
     <<T3, Ora("ORA", "12899", ":"), Txt(170)>>}

InitOracle ==
    /\ lines = <<>>
    /\ pc = "oracle"
    /\ caller = "direct"
    /\ file_path = DirectPath
    /\ InitCommon
    /\ NoArguments

NextOracle ==
    \/ \E line \in OracleLines :
        \/ NoErrorLine(line)
        \/ ExcludedLine(line)
        \/ ErrorLine(line)
        \/ OracleTimestampRaises(line)
    \/ ReturnErrors

SpecOracle == InitOracle /\ [][NextOracle]_vars

(***************************************************************************)
(* parse_timestamp, called directly on one line                            *)
(***************************************************************************)
\* parsers.py:12-15, the match parsed or no match
ParseReturns ==
    /\ pc = "parse_timestamp"
    /\ parse_timestamp(lines[1]) # ValueError
    /\ returned' = parse_timestamp(lines[1])
    /\ pc' = "done"
    /\ UNCHANGED <<caller, file_path, lines, lockVars, oraVars, folderVars,
                   read, total, emitted, ahead, scanned, traceVars, runVars,
                   files_with_id>>

\* parsers.py:14, strptime raises
ParseRaises ==
    /\ pc = "parse_timestamp"
    /\ parse_timestamp(lines[1]) = ValueError
    /\ pc' = "raised"
    /\ UNCHANGED <<caller, file_path, lines, returned, lockVars, oraVars,
                   folderVars, read, total, emitted, ahead, scanned, traceVars,
                   runVars, files_with_id>>

\* bracketed texts of the shape the regex accepts: dates, and what is no date
StampTexts ==
    {Stamp(dd, mon, yy, gap, hh, mi, ss) :
        dd \in {0, 1, 29, 30, 31, 32}, mon \in {"JAN", "FEB", "APR", "DEC", "XXX"},
        yy \in {0, 23, 24, 68, 69}, gap \in {1, 2}, hh \in {0, 23, 24},
        mi \in {59, 60}, ss \in {59, 60, 62}}

\* lines without a bracketed timestamp, with one, and with a second one
\* after it
StampLines ==
    {<<>>, <<Txt(10)>>, <<Tag, Wait>>}
    \cup {<<s>> : s \in StampTexts}
    \cup {<<Txt(10), s, Tag, Fail>> : s \in StampTexts}
    \cup {<<s, T1>> : s \in {T2, BadStamp}}
    \cup {<<T1, s>> : s \in {T2, BadStamp}}

InitStamp ==
    /\ pc = "parse_timestamp"
    /\ caller = "direct"
    /\ file_path = None
    /\ InitCommon
    /\ NoArguments
    /\ \E line \in StampLines : lines = <<line>>

NextStamp == ParseReturns \/ ParseRaises

SpecStamp == InitStamp /\ [][NextStamp]_vars

(***************************************************************************)
(* process_folder: the loop over the files, logparser.py:64-76             *)
(***************************************************************************)
FolderFrame ==
    UNCHANGED <<caller, lines, returned, oraVars, total, emitted, traceVars,
                runVars, files_with_id>>

\* CallLockInfo with the identifier and the wait timestamp of the scan
\* before it
CallLockInfo_keeps_state ==
    /\ pc = "loop"
    /\ files_processed < MaxFiles
    /\ file_path' = LogFile(files_processed + 1)
    /\ results' = <<>>
    /\ read' = 0
    /\ ahead' = OracleStart
    /\ scanned' = NextFile
    /\ pc' = "lock"
    /\ UNCHANGED <<current_del_id, wait_time_line, wait_timestamp, folderVars>>
    /\ FolderFrame

\* logparser.py:64, 69 and parsers.py:67-70: the next file of the glob is
\* handed to extract_wdd_lock_info
CallLockInfo ==
    /\ pc = "loop"
    /\ files_processed < MaxFiles
    /\ file_path' = LogFile(files_processed + 1)
    /\ current_del_id' = None
    /\ wait_time_line' = None
    /\ wait_timestamp' = None
    /\ results' = <<>>
    /\ read' = 0
    /\ ahead' = OracleStart
    /\ scanned' = NextFile
    /\ pc' = "lock"
    /\ UNCHANGED folderVars
    /\ FolderFrame

\* ExtendResults that puts the file's records before the earlier ones
ExtendResults_prepends ==
    /\ pc = "extend_results"
    /\ all_results' = results \o all_results
    /\ pc' = "call_oracle"
    /\ UNCHANGED <<file_path, lockVars, all_oracle_errors, files_processed,
                   oracle_errors, read, ahead, scanned>>
    /\ FolderFrame

\* logparser.py:70
ExtendResults ==
    /\ pc = "extend_results"
    /\ all_results' = all_results \o results
    /\ pc' = "call_oracle"
    /\ UNCHANGED <<file_path, lockVars, all_oracle_errors, files_processed,
                   oracle_errors, read, ahead, scanned>>
    /\ FolderFrame

\* logparser.py:73: extract_oracle_errors reads the same file again, from
\* its first line; it raises if parse_timestamp raises on a line of it
CallOracleErrors ==
    /\ pc = "call_oracle"
    /\ IF ahead.raised
       THEN pc' = "raised" /\ oracle_errors' = oracle_errors
       ELSE pc' = "extend_oracle" /\ oracle_errors' = ahead.errors
    /\ UNCHANGED <<file_path, lockVars, all_results, all_oracle_errors,
                   files_processed, read, ahead, scanned>>
    /\ FolderFrame

\* logparser.py:74
ExtendOracleErrors ==
    /\ pc = "extend_oracle"
    /\ all_oracle_errors' = all_oracle_errors \o oracle_errors
    /\ pc' = "count"
    /\ UNCHANGED <<file_path, lockVars, all_results, files_processed,
                   oracle_errors, read, ahead, scanned>>
    /\ FolderFrame

\* logparser.py:76
CountFile ==
    /\ pc = "count"
    /\ files_processed' = files_processed + 1
    /\ pc' = "loop"
    /\ UNCHANGED <<file_path, lockVars, all_results, all_oracle_errors,
                   oracle_errors, read, ahead, scanned>>
    /\ FolderFrame

\* logparser.py:64: the glob has no more files (it had one at least,
\* logparser.py:58)
ExitLoop ==
    /\ pc = "loop"
    /\ files_processed >= 1
    /\ pc' = "stats"
    /\ UNCHANGED <<file_path, lockVars, folderVars, read, ahead, scanned>>
    /\ FolderFrame

\* the lines the files of the folder are made of
FolderLines ==
    {<<T1, Tag, Del("100")>>, <<T1, Tag, Wait>>, <<T2, Tag, Fail>>,
     <<T3, Tag, Succ>>, <<T2, Ora("ORA", "00001", ":"), Txt(18)>>,
     <<BadStamp, Tag, Wait>>, <<BadStamp, Ora("ORA", "00060", ":")>>}

InitFolder ==
    /\ lines = <<>>
    /\ pc = "loop"
    /\ caller = "process_folder"
    /\ file_path = None
    /\ InitCommon
    /\ NoArguments

NextFolder ==
    \/ CallLockInfo
    \/ \E line \in FolderLines :
        \/ SkipLine(line)
        \/ DelIdLine(line)
        \/ WaitTimeLine(line)
        \/ LockFailLine(line)
        \/ LockSuccessLine(line)
        \/ UnmatchedLine(line)
        \/ LockTimestampRaises(line)
    \/ ReturnResults
    \/ ExtendResults
    \/ CallOracleErrors
    \/ ExtendOracleErrors
    \/ CountFile
    \/ ExitLoop

SpecFolder == InitFolder /\ [][NextFolder]_vars

(***************************************************************************)
(* extract_id_traces: the loop, one action per branch of its body.  Here a *)
(* line, and the search string, is a sequence of characters.               *)
(***************************************************************************)
\* an int held where None may be held too
Num(n) == [k |-> "int", n |-> n]

\* search_id in line
occurs_in(search, line) ==
    \E i \in 1..(Len(line) - Len(search) + 1) :
        SubSeq(line, i, i + Len(search) - 1) = search

TraceFrame ==
    UNCHANGED <<caller, file_path, returned, lockVars, oraVars, folderVars,
                emitted, search_id, runVars, files_with_id>>

\* parsers.py:153-157, the first line the search string occurs in
FirstMatchLine(line) ==
    /\ pc = "trace"
    /\ MayRead
    /\ occurs_in(search_id, line)
    /\ first_occurrence = None
    /\ ReadLine(line)
    /\ all_lines' = Append(all_lines, line)
    /\ first_occurrence' = Num(Len(all_lines) + 1)
    /\ last_occurrence' = Num(Len(all_lines) + 1)
    /\ UNCHANGED pc
    /\ TraceFrame

\* LaterMatchLine without "last_occurrence = line_num"
LaterMatchLine_keeps_last(line) ==
    /\ pc = "trace"
    /\ MayRead
    /\ occurs_in(search_id, line)
    /\ first_occurrence # None
    /\ ReadLine(line)
    /\ all_lines' = Append(all_lines, line)
    /\ UNCHANGED <<pc, first_occurrence, last_occurrence>>
    /\ TraceFrame

\* parsers.py:153-157, a later line the search string occurs in
LaterMatchLine(line) ==
    /\ pc = "trace"
    /\ MayRead
    /\ occurs_in(search_id, line)
    /\ first_occurrence # None
    /\ ReadLine(line)
    /\ all_lines' = Append(all_lines, line)
    /\ last_occurrence' = Num(Len(all_lines) + 1)
    /\ UNCHANGED <<pc, first_occurrence>>
    /\ TraceFrame

\* parsers.py:153-154, a line the search string does not occur in
NoMatchLine(line) ==
    /\ pc = "trace"
    /\ MayRead
    /\ ~occurs_in(search_id, line)
    /\ ReadLine(line)
    /\ all_lines' = Append(all_lines, line)
    /\ UNCHANGED <<pc, first_occurrence, last_occurrence>>
    /\ TraceFrame

\* where a call of extract_id_traces returns to
trace_returns == IF caller = "direct" THEN "done" ELSE "trace_returned"

\* parsers.py:159-160: the file has ended and held no occurrence
ReturnNotFound ==
    /\ pc = "trace"
    /\ first_occurrence = None \/ last_occurrence = None
    /\ returned' = <<<<>>, 0, 0>>
    /\ pc' = trace_returns
    /\ UNCHANGED <<caller, file_path, lines, lockVars, oraVars, folderVars,
                   read, total, emitted, ahead, scanned, traceVars, runVars,
                   files_with_id>>

\* ReturnTrace with the slice all_lines[first_occurrence:last_occurrence]
ReturnTrace_without_first ==
    /\ pc = "trace"
    /\ first_occurrence # None /\ last_occurrence # None
    /\ returned' = <<SubSeq(all_lines, first_occurrence.n + 1, last_occurrence.n),
                     first_occurrence.n, last_occurrence.n>>
    /\ pc' = trace_returns
    /\ UNCHANGED <<caller, file_path, lines, lockVars, oraVars, folderVars,
                   read, total, emitted, ahead, scanned, traceVars, runVars,
                   files_with_id>>

\* parsers.py:163-165: the file has ended; all_lines[first - 1:last]
ReturnTrace ==
    /\ pc = "trace"
    /\ first_occurrence # None /\ last_occurrence # None
    /\ returned' = <<SubSeq(all_lines, first_occurrence.n, last_occurrence.n),
                     first_occurrence.n, last_occurrence.n>>
    /\ pc' = trace_returns
    /\ UNCHANGED <<caller, file_path, lines, lockVars, oraVars, folderVars,
                   read, total, emitted, ahead, scanned, traceVars, runVars,
                   files_with_id>>

(***************************************************************************)
(* A file scanned by extract_id_traces, called directly                    *)
(***************************************************************************)
\* lines of no, one, two and three characters, in two letter cases
TraceLines ==
    {<<>>, <<"a">>, <<"A">>, <<"a", "A">>, <<"A", "a">>, <<"a", "A", "a">>}

\* the empty search string, one of one and one of two characters, and one
\* that occurs in no line
SearchIds == {<<>>, <<"a">>, <<"a", "A">>, <<"b">>}

InitTrace ==
    /\ lines = <<>>
    /\ pc = "trace"
    /\ caller = "direct"
    /\ file_path = DirectPath
    /\ InitCommon
    /\ scanned = NoHistory
    /\ folder = "has_files"
    /\ output_path = None
    /\ generate_reports = TRUE
    /\ search_id \in SearchIds

NextTrace ==
    \/ \E line \in TraceLines :
        \/ FirstMatchLine(line)
        \/ LaterMatchLine(line)
        \/ NoMatchLine(line)
    \/ ReturnNotFound
    \/ ReturnTrace

SpecTrace == InitTrace /\ [][NextTrace]_vars

(***************************************************************************)
(* process_folder, the whole call: logparser.py:46-114.  The loop is the   *)
(* one above; these are the statements before and after it.                *)
(***************************************************************************)
\* a path "<stem>.<ext>"
Path(stem, ext) == [k |-> "path", stem |-> stem, ext |-> ext]

\* output_path.rsplit('.', 1)[0] if output_path else 'wdd_lock_results'
base_path == IF output_path # None THEN output_path.stem ELSE "wdd_lock_results"
\* base_path + '.xlsx'
excel_path == Path(base_path, "xlsx")

\* what the statements outside the loop leave alone
RunFrame ==
    UNCHANGED <<caller, file_path, lines, lockVars, oraVars, folderVars,
                read, total, emitted, ahead, scanned, traceVars, folder,
                output_path, generate_reports, files_with_id>>

\* logparser.py:48-50
FolderNotFound ==
    /\ pc = "process_folder"
    /\ folder = "missing"
    /\ console' = Append(console, "Error: Folder not found")
    /\ exit_status' = Num(1)
    /\ pc' = "exited"
    /\ UNCHANGED <<returned, stats, created, csv>>
    /\ RunFrame

\* NoFilesMatch without sys.exit(1)
NoFilesMatch_goes_on ==
    /\ pc = "process_folder"
    /\ folder = "no_match"
    /\ console' = Append(console, "No files matching")
    /\ pc' = "stats"
    /\ UNCHANGED <<returned, stats, created, csv, exit_status>>
    /\ RunFrame

\* logparser.py:52-60
NoFilesMatch ==
    /\ pc = "process_folder"
    /\ folder = "no_match"
    /\ console' = Append(console, "No files matching")
    /\ exit_status' = Num(1)
    /\ pc' = "exited"
    /\ UNCHANGED <<returned, stats, created, csv>>
    /\ RunFrame

\* logparser.py:52-62: the three accumulators are empty as the loop starts
FilesFound ==
    /\ pc = "process_folder"
    /\ folder = "has_files"
    /\ pc' = "loop"
    /\ UNCHANGED <<returned, stats, created, csv, console, exit_status>>
    /\ RunFrame

\* len([r for r in all_results if r['result'] == result])
RECURSIVE count_result(_, _)
count_result(rs, result) ==
    IF rs = <<>> THEN 0
    ELSE (IF rs[1].result = result THEN 1 ELSE 0) + count_result(Tail(rs), result)

\* len([r for r in all_results if r['time_diff_seconds'] > 0])
RECURSIVE count_with_delay(_)
count_with_delay(rs) ==
    IF rs = <<>> THEN 0
    ELSE (IF rs[1].time_diff_seconds > 0 THEN 1 ELSE 0) + count_with_delay(Tail(rs))

\* logparser.py:79-92; print_summary and print_oracle_errors only print
ComputeStats ==
    /\ pc = "stats"
    /\ stats' = [total |-> Len(all_results),
                 success |-> count_result(all_results, "LOCK SUCCESS"),
                 failed |-> count_result(all_results, "LOCK FAILED"),
                 with_delay |-> count_with_delay(all_results)]
    /\ pc' = "reports"
    /\ UNCHANGED <<returned, created, csv, console, exit_status>>
    /\ RunFrame

\* logparser.py:95, generate_reports is false
SkipReports ==
    /\ pc = "reports"
    /\ ~generate_reports
    /\ pc' = "csv"
    /\ UNCHANGED <<returned, stats, created, csv, console, exit_status>>
    /\ RunFrame

\* excel_report.py:10-16: openpyxl cannot be imported
ExcelImportError ==
    /\ pc = "reports"
    /\ generate_reports
    /\ console' = Append(console, "openpyxl not installed")
    /\ pc' = "csv"
    /\ UNCHANGED <<returned, stats, created, csv, exit_status>>
    /\ RunFrame

\* excel_report.py:18-22
ExcelNoResults ==
    /\ pc = "reports"
    /\ generate_reports
    /\ all_results = <<>> /\ all_oracle_errors = <<>>
    /\ console' = Append(console, "No results to generate Excel.")
    /\ pc' = "csv"
    /\ UNCHANGED <<returned, stats, created, csv, exit_status>>
    /\ RunFrame

\* excel_report.py:24-282: the workbook is built and saved
ExcelSaved ==
    /\ pc = "reports"
    /\ generate_reports
    /\ all_results # <<>> \/ all_oracle_errors # <<>>
    /\ created' = created \cup {excel_path}
    /\ console' = Append(console, "Excel saved")
    /\ pc' = "csv"
    /\ UNCHANGED <<returned, stats, csv, exit_status>>
    /\ RunFrame

\* excel_report.py:281: wb.save cannot write the file (it is open in another
\* program, or the directory does not take it) and raises OSError, which
\* neither generate_excel nor process_folder catches
ExcelSaveRaises ==
    /\ pc = "reports"
    /\ generate_reports
    /\ all_results # <<>> \/ all_oracle_errors # <<>>
    /\ pc' = "raised"
    /\ UNCHANGED <<returned, stats, created, csv, console, exit_status>>
    /\ RunFrame

\* the header row, logparser.py:109
csv_header ==
    <<"File", "Del_ID", "Wait_Start", "Result_Time", "Time_Diff_Seconds", "Result">>
\* the row of a record, logparser.py:111
csv_row(r) ==
    <<r.file, r.del_id, r.wait_start, r.result_time, r.time_diff_seconds, r.result>>

\* logparser.py:107-112
WriteCsv ==
    /\ pc = "csv"
    /\ output_path # None /\ all_results # <<>>
    /\ csv' = <<csv_header>> \o [i \in 1..Len(all_results) |-> csv_row(all_results[i])]
    /\ created' = created \cup {output_path}
    /\ console' = Append(console, "CSV saved")
    /\ pc' = "return"
    /\ UNCHANGED <<returned, stats, exit_status>>
    /\ RunFrame

\* SkipCsv that writes the header row when a path is given
SkipCsv_writes_header ==
    /\ pc = "csv"
    /\ ~(output_path # None /\ all_results # <<>>)
    /\ IF output_path # None
       THEN csv' = <<csv_header>> /\ created' = created \cup {output_path}
       ELSE UNCHANGED <<csv, created>>
    /\ pc' = "return"
    /\ UNCHANGED <<returned, stats, console, exit_status>>
    /\ RunFrame

\* logparser.py:107, the condition is false
SkipCsv ==
    /\ pc = "csv"
    /\ ~(output_path # None /\ all_results # <<>>)
    /\ pc' = "return"
    /\ UNCHANGED <<returned, stats, created, csv, console, exit_status>>
    /\ RunFrame

\* logparser.py:114
ReturnFolder ==
    /\ pc = "return"
    /\ returned' = <<all_results, all_oracle_errors>>
    /\ pc' = "done"
    /\ UNCHANGED <<stats, created, csv, console, exit_status>>
    /\ RunFrame

(***************************************************************************)
(* extract_id_from_folder: logparser.py:126-174                            *)
(***************************************************************************)
\* folder / f"id_traces_{search_id}"
output_dir == [k |-> "dir", name |-> "id_traces"]
\* output_dir / f"{log_file.stem}_id_{search_id}.log", for the i-th file
output_file(i) == [k |-> "trace_file", of |-> i]

IdFrame ==
    UNCHANGED <<caller, lines, lockVars, oraVars, folderVars, emitted, ahead,
                search_id, folder, output_path, generate_reports, stats, csv>>

\* logparser.py:128-130
IdFolderNotFound ==
    /\ pc = "extract_id_from_folder"
    /\ folder = "missing"
    /\ console' = Append(console, "Error: Folder not found")
    /\ exit_status' = Num(1)
    /\ pc' = "exited"
    /\ UNCHANGED <<file_path, returned, read, total, scanned, first_occurrence,
                   last_occurrence, all_lines, created, files_with_id>>
    /\ IdFrame

\* logparser.py:132-136
IdNoFilesMatch ==
    /\ pc = "extract_id_from_folder"
    /\ folder = "no_match"
    /\ console' = Append(console, "No files matching")
    /\ exit_status' = Num(1)
    /\ pc' = "exited"
    /\ UNCHANGED <<file_path, returned, read, total, scanned, first_occurrence,
                   last_occurrence, all_lines, created, files_with_id>>
    /\ IdFrame

\* logparser.py:132-141
IdFilesFound ==
    /\ pc = "extract_id_from_folder"
    /\ folder = "has_files"
    /\ files_with_id' = 0
    /\ pc' = "id_loop"
    /\ UNCHANGED <<file_path, returned, read, total, scanned, first_occurrence,
                   last_occurrence, all_lines, created, console, exit_status>>
    /\ IdFrame

\* logparser.py:143-147 and parsers.py:147-149: the next file of the glob is
\* handed to extract_id_traces
CallIdTraces ==
    /\ pc = "id_loop"
    /\ Len(scanned.files) < MaxFiles
    /\ file_path' = LogFile(Len(scanned.files) + 1)
    /\ first_occurrence' = None
    /\ last_occurrence' = None
    /\ all_lines' = <<>>
    /\ read' = 0
    /\ scanned' = NextFile
    /\ pc' = "trace"
    /\ UNCHANGED <<returned, total, created, console, exit_status, files_with_id>>
    /\ IdFrame

\* logparser.py:149-165: the span is not empty
WriteTraceFile ==
    /\ pc = "trace_returned"
    /\ returned[1] # <<>>
    /\ created' = created \cup {output_dir, output_file(Len(scanned.files))}
    /\ files_with_id' = files_with_id + 1
    /\ pc' = "id_loop"
    /\ UNCHANGED <<file_path, returned, read, total, scanned, first_occurrence,
                   last_occurrence, all_lines, console, exit_status>>
    /\ IdFrame

\* logparser.py:166-167: the span is empty
TraceNotFound ==
    /\ pc = "trace_returned"
    /\ returned[1] = <<>>
    /\ pc' = "id_loop"
    /\ UNCHANGED <<file_path, returned, read, total, scanned, first_occurrence,
                   last_occurrence, all_lines, created, console, exit_status,
                   files_with_id>>
    /\ IdFrame

\* logparser.py:143, 169-174: the glob has no more files
IdExitLoop ==
    /\ pc = "id_loop"
    /\ Len(scanned.files) >= 1
    /\ console' = Append(console, IF files_with_id > 0 THEN "ID found"
                                  ELSE "ID was not found in any files")
    /\ pc' = "done"
    /\ UNCHANGED <<file_path, returned, read, total, scanned, first_occurrence,
                   last_occurrence, all_lines, created, exit_status,
                   files_with_id>>
    /\ IdFrame

(***************************************************************************)
(* A run of process_folder or of extract_id_from_folder on a folder, from  *)
(* the call to its end, with the lines read from each file kept            *)
(***************************************************************************)
\* the output_path argument when one is given
CsvPath == Path("results", "csv")

InitRun ==
    /\ lines = <<>>
    /\ file_path = None
    /\ InitCommon
    /\ scanned = KeptHistory
    /\ folder \in {"missing", "no_match", "has_files"}
    /\ \/ /\ caller = "process_folder"
          /\ pc = "process_folder"
          /\ search_id = None
          /\ output_path \in {None, CsvPath}
          /\ generate_reports \in BOOLEAN
       \/ /\ caller = "extract_id_from_folder"
          /\ pc = "extract_id_from_folder"
          /\ search_id \in {<<"a">>, <<"a", "A">>}
          /\ output_path = None
          /\ generate_reports = TRUE

NextRun ==
    \/ FolderNotFound
    \/ NoFilesMatch
    \/ FilesFound
    \/ NextFolder
    \/ ComputeStats
    \/ SkipReports
    \/ ExcelImportError
    \/ ExcelNoResults
    \/ ExcelSaved
    \/ ExcelSaveRaises
    \/ WriteCsv
    \/ SkipCsv
    \/ ReturnFolder
    \/ IdFolderNotFound
    \/ IdNoFilesMatch
    \/ IdFilesFound
    \/ CallIdTraces
    \/ \E line \in TraceLines :
        \/ FirstMatchLine(line)
        \/ LaterMatchLine(line)
        \/ NoMatchLine(line)
    \/ ReturnNotFound
    \/ ReturnTrace
    \/ WriteTraceFile
    \/ TraceNotFound
    \/ IdExitLoop

SpecRun == InitRun /\ [][NextRun]_vars

(***************************************************************************)
(* Vocabulary of the properties                                            *)
(***************************************************************************)
\* What a line is for the lock extractor, read off its text alone.  A line
\* with several phrases counts as the first of: identifier, wait-time,
\* failure, success.
IdMarker(line) == xdock_pattern(line) /\ del_id_pattern(line) # None
WaitMarker(line) == ~IdMarker(line) /\ wait_time_pattern(line)
FailMarker(line) ==
    ~IdMarker(line) /\ ~WaitMarker(line) /\ lock_fail_pattern(line)
SuccessMarker(line) ==
    /\ ~IdMarker(line) /\ ~WaitMarker(line) /\ ~FailMarker(line)
    /\ lock_success_pattern(line)
TerminalMarker(line) == FailMarker(line) \/ SuccessMarker(line)
IdOf(line) == Str(line[CHOOSE i \in 1..Len(line) : line[i].k = "del"].id)

IsDatetime(v) == v.k = "datetime"
Parseable(line) == IsDatetime(parse_timestamp(line))

Max(S) == CHOOSE x \in S : \A y \in S : y <= x

\* a is an earlier moment than b, field by field
Earlier(a, b) ==
    LET fa == <<a.year, a.month, a.day, a.hour, a.minute, a.second>>
        fb == <<b.year, b.month, b.day, b.hour, b.minute, b.second>>
    IN  \E i \in 1..6 : fa[i] < fb[i] /\ \A j \in 1..(i - 1) : fa[j] = fb[j]

\* the positions of the tagged lines of the file read so far
TaggedLines == {i \in 1..Len(lines) : xdock_pattern(lines[i])}
\* the positions of the identifier markers before line k
IdMarkersBefore(k) == {i \in 1..(k - 1) : IdMarker(lines[i])}
WaitMarkersBetween(i, k) == {j \in (i + 1)..(k - 1) : WaitMarker(lines[j])}

(***************************************************************************)
(* C1: a file whose tagged lines are, in order, an identifier marker with  *)
(* identifier d, a wait-time marker stamped t1 and a lock-result marker    *)
(* stamped t2, t1 and t2 dates, gives exactly one record: identifier d,    *)
(* elapsed t2 - t1, LOCK FAILED for the failure phrase and LOCK SUCCESS    *)
(* for the success phrase; that is also what the call returns.             *)
(***************************************************************************)
C1Shape ==
    /\ Cardinality(TaggedLines) = 3
    /\ LET i == Min(TaggedLines)
           k == Max(TaggedLines)
           j == CHOOSE x \in TaggedLines : x # i /\ x # k
       IN  /\ IdMarker(lines[i])
           /\ WaitMarker(lines[j]) /\ Parseable(lines[j])
           /\ TerminalMarker(lines[k]) /\ Parseable(lines[k])

C1OneRecord ==
    C1Shape =>
        LET i == Min(TaggedLines)
            k == Max(TaggedLines)
            j == CHOOSE x \in TaggedLines : x # i /\ x # k
            t1 == parse_timestamp(lines[j])
            t2 == parse_timestamp(lines[k])
            rec == [del_id |-> IdOf(lines[i]),
                    wait_start |-> strftime(t1),
                    result_time |-> strftime(t2),
                    time_diff_seconds |-> total_seconds(t2, t1),
                    result |-> IF FailMarker(lines[k]) THEN "LOCK FAILED"
                               ELSE "LOCK SUCCESS",
                    file |-> DirectPath.name]
        IN  /\ results = <<rec>>
            /\ pc = "done" => returned = <<rec>>

\* a success sequence with an untagged line inside it has been returned
C1Witness ==
    /\ C1Shape
    /\ pc = "done"
    /\ Len(lines) = 4
    /\ SuccessMarker(lines[Max(TaggedLines)])
    /\ Len(returned) = 1 /\ returned[1].time_diff_seconds = 11

(***************************************************************************)
(* C2: an identifier marker makes its identifier the active one and drops  *)
(* the pending wait timestamp; an identifier that a later identifier       *)
(* marker replaced is never the identifier of a record emitted afterwards: *)
(* every record carries the identifier of the last identifier marker       *)
(* before its lock-result line, and a wait-time marker lies between them.  *)
(***************************************************************************)
C2NewIdentifierDropsPending ==
    /\ (lines # <<>> /\ IdMarker(Last(lines))) =>
          /\ current_del_id = IdOf(Last(lines))
          /\ wait_timestamp = None
          /\ wait_time_line = None
    /\ Len(emitted) = Len(results)
    /\ \A r \in 1..Len(results) :
          LET k == emitted[r].line
          IN  /\ IdMarkersBefore(k) # {}
              /\ results[r].del_id = IdOf(lines[Max(IdMarkersBefore(k))])
              /\ WaitMarkersBetween(Max(IdMarkersBefore(k)), k) # {}

\* identifier 100 was pending with a wait timestamp when the marker of 200
\* came; the failure line after it emitted nothing
C2Witness ==
    /\ Len(lines) = 4
    /\ IdMarker(lines[1]) /\ IdOf(lines[1]) = Str("100")
    /\ WaitMarker(lines[2]) /\ Parseable(lines[2])
    /\ IdMarker(lines[3]) /\ IdOf(lines[3]) = Str("200")
    /\ FailMarker(lines[4]) /\ Parseable(lines[4])
    /\ results = <<>>
    /\ current_del_id = Str("200")

(***************************************************************************)
(* C3: every record is justified by three lines of the file, in this       *)
(* order: an identifier marker with the record's identifier, a wait-time   *)
(* marker stamped with the record's wait start, a lock-result marker       *)
(* stamped with the record's result time, and no identifier marker lies    *)
(* between the first and the third.                                        *)
(***************************************************************************)
C3RecordJustified ==
    \A r \in 1..Len(results) :
        \E i \in 1..Len(lines) : \E j \in (i + 1)..Len(lines) :
        \E k \in (j + 1)..Len(lines) :
            /\ IdMarker(lines[i]) /\ IdOf(lines[i]) = results[r].del_id
            /\ WaitMarker(lines[j]) /\ Parseable(lines[j])
            /\ strftime(parse_timestamp(lines[j])) = results[r].wait_start
            /\ TerminalMarker(lines[k]) /\ Parseable(lines[k])
            /\ strftime(parse_timestamp(lines[k])) = results[r].result_time
            /\ (results[r].result = "LOCK FAILED") = FailMarker(lines[k])
            /\ \A m \in (i + 1)..(k - 1) : ~IdMarker(lines[m])

\* a record whose three lines are not next to each other
C3Witness ==
    /\ Len(results) = 1
    /\ Len(lines) = 4
    /\ IdMarker(lines[1]) /\ WaitMarker(lines[2])
    /\ ~xdock_pattern(lines[3]) /\ FailMarker(lines[4])

(***************************************************************************)
(* C4: a lock-result marker read while an identifier is active and no      *)
(* wait-start timestamp is held.                                           *)
(***************************************************************************)
\* this step of the scan read a lock-result marker with an identifier active
\* and no wait-start timestamp held
C4OrphanResult ==
    /\ pc = "lock"
    /\ current_del_id # None
    /\ wait_timestamp = None
    /\ Len(lines') = Len(lines) + 1
    /\ TerminalMarker(Last(lines'))

\* C4 as stated: no record is emitted and the state resets to IDLE, the
\* identifier cleared
C4AsStated ==
    [][C4OrphanResult => (results' = results /\ current_del_id' = None)]_vars

\* C4 as the code has it: no record is emitted and the state is left as it
\* was, the identifier still active
C4OrphanResultIgnored ==
    [][C4OrphanResult =>
          /\ results' = results
          /\ current_del_id' = current_del_id
          /\ wait_timestamp' = None
          /\ wait_time_line' = wait_time_line
          /\ pc' = "lock"]_vars

\* after a failure marker that found no wait-start timestamp (the wait-time
\* line before it has no timestamp), a wait-time marker and a lock-result
\* marker emitted a record for the identifier, no identifier marker between
C4Witness ==
    /\ Len(lines) = 4
    /\ IdMarker(lines[1])
    /\ FailMarker(lines[2])
    /\ WaitMarker(lines[3])
    /\ TerminalMarker(lines[4])
    /\ Len(results) = 1
    /\ results[1].del_id = IdOf(lines[1])

(***************************************************************************)
(* C5: the elapsed seconds of every record are the seconds from the        *)
(* timestamp of its wait-time line to the timestamp of its lock-result     *)
(* line, negative exactly when the result line's timestamp is the earlier  *)
(* one, zero exactly when the two are the same moment.                     *)
(***************************************************************************)
C5ElapsedNotClamped ==
    /\ Len(emitted) = Len(results)
    /\ \A r \in 1..Len(results) :
          LET k == emitted[r].line
              j == Max({x \in 1..(k - 1) : WaitMarker(lines[x])})
              t1 == parse_timestamp(lines[j])
              t2 == parse_timestamp(lines[k])
              d == results[r].time_diff_seconds
          IN  /\ d = total_seconds(t2, t1)
              /\ (d < 0) = Earlier(t2, t1)
              /\ (d > 0) = Earlier(t1, t2)

\* a record whose result line is stamped 7 seconds before its wait line
C5Witness ==
    /\ lines # <<>>
    /\ results # <<>>
    /\ Last(results).time_diff_seconds = -7
    /\ Last(results).wait_start = strftime(strptime(T2))
    /\ Last(results).result_time = strftime(strptime(T1))

(***************************************************************************)
(* C6: the lock records process_folder accumulates are in file-then-line   *)
(* order: the records in all_results are the records emitted so far, in    *)
(* the order of (file, lock-result line), each once; after a file's        *)
(* results are added none is missing, and before that the missing ones     *)
(* are those of the file being scanned.                                    *)
(***************************************************************************)
\* record a came from an earlier file than b, or from an earlier line of
\* the same file
FileThenLine(a, b) ==
    \/ a.file < b.file
    \/ a.file = b.file /\ a.line < b.line

C6FileThenLineOrder ==
    /\ \A a \in 1..Len(emitted) : \A b \in (a + 1)..Len(emitted) :
          FileThenLine(emitted[a], emitted[b])
    /\ Len(all_results) <= Len(emitted)
    /\ \A i \in 1..Len(all_results) : all_results[i] = emitted[i].rec
    /\ \A i \in (Len(all_results) + 1)..Len(emitted) :
          /\ emitted[i].file = files_processed + 1
          /\ results[i - Len(all_results)] = emitted[i].rec
    /\ pc \in {"loop", "call_oracle", "extend_oracle", "count", "stats"} =>
          Len(all_results) = Len(emitted)

\* two files gave one record each, a failure in the first and a success in
\* the second, and the loop has ended
C6Witness ==
    /\ pc = "stats"
    /\ Len(all_results) = 2
    /\ emitted[1].file = 1 /\ emitted[2].file = 2
    /\ all_results[1].result = "LOCK FAILED"
    /\ all_results[2].result = "LOCK SUCCESS"

(***************************************************************************)
(* Vocabulary of the Oracle properties                                     *)
(***************************************************************************)
\* the line holds ORA-01403 somewhere, in any letter case, whatever follows
ContainsExcluded(line) ==
    \E i \in 1..Len(line) : line[i].k = "ora" /\ line[i].code = "01403"
\* the code of the leftmost ORA-<5 digits><separator> of the line
FirstCode(line) == line[ora_pattern(line)].code
\* the line has such a match and its code is not the excluded one
Reportable(line) == ora_pattern(line) # 0 /\ FirstCode(line) # "01403"
\* the records made for line i of the file
RecordsOfLine(i) == {r \in 1..Len(errors) : errors[r].line_number = i}

(***************************************************************************)
(* C7: no record of extract_oracle_errors, kept or returned, has the       *)
(* error code ORA-01403, whatever the letter case of the prefix on the     *)
(* line and whatever other codes the line holds.                           *)
(***************************************************************************)
C7NoExcludedCode ==
    /\ \A r \in 1..Len(errors) : errors[r].error_code # "ORA-01403"
    /\ pc = "done" =>
          \A r \in 1..Len(returned) : returned[r].error_code # "ORA-01403"

\* the file held ora-01403 in small letters before another code, and a line
\* that gave a record; the scan has returned
C7Witness ==
    /\ pc = "done"
    /\ Len(returned) >= 1
    /\ \E i \in 1..Len(lines) :
          /\ ora_pattern(lines[i]) # 0
          /\ lines[i][ora_pattern(lines[i])].pre = "ora"
          /\ FirstCode(lines[i]) = "01403"
          /\ \E j \in 1..Len(lines[i]) :
                lines[i][j].k = "ora" /\ lines[i][j].code # "01403"

(***************************************************************************)
(* C8: lines that hold ORA-01403.                                          *)
(***************************************************************************)
\* C8 as stated: a line that holds ORA-01403 gives no record, also when
\* another code stands before it or after it on the line
C8AsStated ==
    \A i \in 1..Len(lines) : ContainsExcluded(lines[i]) => RecordsOfLine(i) = {}

\* C8 as the code has it: a line whose leftmost ORA-<5 digits><separator>
\* is ORA-01403 gives no record, also when another code follows it
C8LeftmostExcluded ==
    \A i \in 1..Len(lines) :
        (ora_pattern(lines[i]) # 0 /\ FirstCode(lines[i]) = "01403") =>
            RecordsOfLine(i) = {}

\* a line with ORA-01403 first and ORA-00001 after it has been read, it gave
\* no record, and another line of the file did
C8Witness ==
    /\ Len(lines) = 2
    /\ ora_pattern(lines[1]) # 0 /\ FirstCode(lines[1]) = "01403"
    /\ \E j \in 1..Len(lines[1]) :
          lines[1][j].k = "ora" /\ lines[1][j].code = "00001"
    /\ RecordsOfLine(1) = {}
    /\ RecordsOfLine(2) # {}

(***************************************************************************)
(* C9: every line whose leftmost ORA-<5 digits><separator> is not the      *)
(* excluded code gives exactly one record, with that code, every other     *)
(* line gives none, and there are never more records than lines.           *)
(***************************************************************************)
C9OneRecordPerLine ==
    /\ Len(errors) <= Len(lines)
    /\ \A i \in 1..Len(lines) :
          IF Reportable(lines[i])
          THEN /\ Cardinality(RecordsOfLine(i)) = 1
               /\ \A r \in RecordsOfLine(i) :
                     errors[r].error_code = "ORA-" \o FirstCode(lines[i])
          ELSE RecordsOfLine(i) = {}

\* what holds of the code: the same, as long as no timestamp has raised
C9UnlessRaised == pc # "raised" => C9OneRecordPerLine

(***************************************************************************)
(* C10: parse_timestamp never raises, and returns None for a line without  *)
(* a bracketed timestamp and for a line whose bracketed timestamp is no    *)
(* date.                                                                   *)
(***************************************************************************)
\* the text of a bracketed timestamp names a day and a time of day
IsDate(s) ==
    /\ s.mon \in {"JAN", "FEB", "MAR", "APR", "MAY", "JUN",
                  "JUL", "AUG", "SEP", "OCT", "NOV", "DEC"}
    /\ s.dd >= 1
    /\ s.dd <= (IF s.mon = "FEB" THEN (IF s.yy % 4 = 0 THEN 29 ELSE 28)
                ELSE IF s.mon \in {"APR", "JUN", "SEP", "NOV"} THEN 30 ELSE 31)
    /\ s.hh <= 23 /\ s.mi <= 59 /\ s.ss <= 59

C10NeverRaises ==
    /\ pc # "raised"
    /\ pc = "done" =>
          LET line == lines[1]
              m == timestamp_match(line)
          IN  (m = 0 \/ ~IsDate(line[m])) => returned = None

\* what holds of the code: None without a bracketed timestamp, the date for
\* one that is a date, and ValueError raised for one that is not
C10RaisesOnNoDate ==
    LET line == lines[1]
        m == timestamp_match(line)
    IN  /\ pc = "done" => IF m = 0 THEN returned = None
                          ELSE IsDate(line[m]) /\ IsDatetime(returned)
        /\ pc = "raised" => m # 0 /\ ~IsDate(line[m])

(***************************************************************************)
(* C11: what formatting the value parse_timestamp returned, with the       *)
(* format it was parsed with, gives back of the bracketed text.            *)
(***************************************************************************)
\* the text between the brackets of the timestamp parse_timestamp matched
BracketedText(line) ==
    LET s == line[timestamp_match(line)]
    IN  [dd |-> s.dd, mon |-> s.mon, yy |-> s.yy, gap |-> s.gap,
         hh |-> s.hh, mi |-> s.mi, ss |-> s.ss]

C11Parsed == pc = "done" /\ IsDatetime(returned)

\* C11 as stated: the formatted value is the bracketed text, character for
\* character
C11AsStated == C11Parsed => strftime(returned) = BracketedText(lines[1])

\* C11 as the code has it: the formatted value has the digits of the
\* bracketed text, its month with the second and third letter in lower case
\* and one space for the white space; it is never the bracketed text
C11RoundTripButMonthCase ==
    C11Parsed =>
        LET f == strftime(returned)
            s == BracketedText(lines[1])
        IN  /\ f.dd = s.dd /\ f.yy = s.yy
            /\ f.hh = s.hh /\ f.mi = s.mi /\ f.ss = s.ss
            /\ f.mon = MonthAbbr[MonthNumber[s.mon]]
            /\ f.mon # s.mon
            /\ f.gap = 1
            /\ f # s

\* a timestamp of 1969, two characters of white space in it, an hour after
\* noon, with text before it on the line, was parsed
C11Witness ==
    /\ C11Parsed
    /\ timestamp_match(lines[1]) = 2
    /\ returned.year = 1969
    /\ returned.hour = 23
    /\ BracketedText(lines[1]).gap = 2

(***************************************************************************)
(* C16: a wait-time marker read while no identifier is active records      *)
(* nothing, and neither it nor a lock-result marker read in that state     *)
(* changes the parse state or the records: no wait-start timestamp is      *)
(* held afterwards and no record is emitted.                               *)
(***************************************************************************)
C16MarkerWhileIdle ==
    /\ pc = "lock"
    /\ current_del_id = None
    /\ Len(lines') = Len(lines) + 1
    /\ WaitMarker(Last(lines')) \/ TerminalMarker(Last(lines'))

C16WaitIgnoredWhileIdle ==
    [][C16MarkerWhileIdle =>
          /\ wait_timestamp' = None
          /\ current_del_id' = None
          /\ results' = results
          /\ pc' = "lock"]_vars

\* a file that starts with a stamped wait-time marker and a stamped
\* lock-result marker has given no record
C16Witness ==
    /\ Len(lines) = 2
    /\ WaitMarker(lines[1]) /\ Parseable(lines[1])
    /\ TerminalMarker(lines[2]) /\ Parseable(lines[2])
    /\ results = <<>>
    /\ wait_timestamp = None

(***************************************************************************)
(* C17: right after a record is emitted no identifier is active and no     *)
(* wait timestamp is held; between the lock-result lines of two records    *)
(* lies an identifier marker, and there are never more records than        *)
(* identifier markers in the file read so far.                             *)
(***************************************************************************)
C17OneRecordPerIdentifier ==
    /\ Len(emitted) = Len(results)
    /\ (emitted # <<>> /\ Last(emitted).line = Len(lines)) =>
          /\ current_del_id = None
          /\ wait_timestamp = None
          /\ wait_time_line = None
    /\ \A r \in 1..Len(emitted) : \A q \in (r + 1)..Len(emitted) :
          \E i \in (emitted[r].line + 1)..(emitted[q].line - 1) :
              IdMarker(lines[i])
    /\ Len(results) <= Cardinality({i \in 1..Len(lines) : IdMarker(lines[i])})

\* the line after the lock-result line of a record is a stamped lock-result
\* marker too, and there is still one record
C17Witness ==
    /\ Len(lines) = 4
    /\ Len(results) = 1
    /\ emitted[1].line = 3
    /\ TerminalMarker(lines[4]) /\ Parseable(lines[4])

(***************************************************************************)
(* C18: a line without the subsystem tag changes neither the active        *)
(* identifier, nor the pending wait line and timestamp, nor the records,   *)
(* whatever phrases it holds.                                              *)
(***************************************************************************)
C18UntaggedLineChangesNothing ==
    [][(/\ pc = "lock"
        /\ Len(lines') = Len(lines) + 1
        /\ ~xdock_pattern(Last(lines')))
       => (UNCHANGED lockVars /\ pc' = "lock")]_vars

\* an untagged line with an identifier phrase, the wait-time phrase and both
\* lock phrases was read while identifier 100 was waiting for its result
C18Witness ==
    /\ Len(lines) = 3
    /\ ~xdock_pattern(lines[3])
    /\ \E i \in 1..Len(lines[3]) : lines[3][i].k = "del"
    /\ \E i \in 1..Len(lines[3]) : lines[3][i] = Fail
    /\ current_del_id = Str("100")
    /\ wait_timestamp # None
    /\ results = <<>>

(***************************************************************************)
(* C20: a lock-result marker read while an identifier is active and a      *)
(* wait-start timestamp is held, the marker line itself without a          *)
(* timestamp that can be parsed.                                           *)
(***************************************************************************)
C20ResultWithoutTimestamp ==
    /\ pc = "lock"
    /\ current_del_id # None
    /\ wait_timestamp # None
    /\ Len(lines') = Len(lines) + 1
    /\ TerminalMarker(Last(lines'))
    /\ ~Parseable(Last(lines'))

\* C20 as stated: no record is emitted and the state is cleared
C20AsStated ==
    [][C20ResultWithoutTimestamp =>
          /\ results' = results
          /\ current_del_id' = None
          /\ wait_timestamp' = None]_vars

\* what holds of C20: no record is emitted, and the state is cleared when
\* the marker line has no bracketed timestamp; when it has one that is no
\* date, the scan ends with ValueError and nothing is cleared
C20ResetsUnlessRaised ==
    [][C20ResultWithoutTimestamp =>
          /\ results' = results
          /\ IF parse_timestamp(Last(lines')) = None
             THEN /\ current_del_id' = None
                  /\ wait_timestamp' = None
                  /\ wait_time_line' = None
                  /\ pc' = "lock"
             ELSE /\ pc' = "raised"
                  /\ UNCHANGED lockVars]_vars

(***************************************************************************)
(* C12: when the search string occurs in a line of the file, the call      *)
(* returns the smallest and the largest number of such a line as first and *)
(* last, and as span the lines first..last of the file, in file order,     *)
(* whether the string occurs in them or not: last - first + 1 lines,       *)
(* first <= last, the string in the first and in the last of them.         *)
(***************************************************************************)
\* sub is in text, character by character
LiteralSubstring(sub, text) ==
    \E i \in 0..(Len(text) - Len(sub)) :
        \A j \in 1..Len(sub) : text[i + j] = sub[j]

\* the numbers of the lines of the file the search string is in
Occurrences == {i \in 1..Len(lines) : LiteralSubstring(search_id, lines[i])}

C12SpanFirstToLast ==
    (pc = "done" /\ Occurrences # {}) =>
        LET first == Min(Occurrences)
            last == Max(Occurrences)
            span == returned[1]
        IN  /\ returned[2] = first /\ returned[3] = last
            /\ first <= last
            /\ Len(span) = last - first + 1
            /\ \A i \in 1..Len(span) : span[i] = lines[first + i - 1]
            /\ LiteralSubstring(search_id, span[1])
            /\ LiteralSubstring(search_id, span[Len(span)])

\* the search string of two characters is in lines 2 and 4 of the file and
\* not in line 3, in which it is in another letter case
C12Witness ==
    /\ pc = "done"
    /\ search_id = <<"a", "A">>
    /\ Occurrences = {2, 4}
    /\ lines[3] = <<"A", "a">>
    /\ Len(returned[1]) = 3

(***************************************************************************)
(* C13: the call returns, and it returns the empty span with first = last  *)
(* = 0 exactly when the search string is in no line of the file; otherwise *)
(* the span is not empty and first is 1 at least.                          *)
(***************************************************************************)
C13NotFoundIffNoOccurrence ==
    /\ pc \in {"trace", "done"}
    /\ pc = "done" =>
          /\ (returned = <<<<>>, 0, 0>>) <=> (Occurrences = {})
          /\ Occurrences # {} => (returned[1] # <<>> /\ returned[2] >= 1)

\* a file of three lines, none of them empty, the search string in none
C13Witness ==
    /\ pc = "done"
    /\ Len(lines) = 3
    /\ \A i \in 1..3 : lines[i] # <<>>
    /\ search_id # <<"b">>
    /\ returned = <<<<>>, 0, 0>>

(***************************************************************************)
(* C14: a run on a folder that does not exist, or in which no file matches *)
(* the glob, ends with sys.exit(1), for process_folder and for             *)
(* extract_id_from_folder alike; at that end no file was handed to an      *)
(* extractor, no line was read, and no CSV, spreadsheet, trace directory   *)
(* or trace file was created.                                              *)
(***************************************************************************)
C14ExitsBeforeAnyWork ==
    /\ (folder # "has_files" /\ pc \notin {"process_folder", "extract_id_from_folder"})
          => (pc = "exited" /\ exit_status = Num(1))
    /\ pc = "exited" =>
          /\ folder # "has_files"
          /\ exit_status.n # 0
          /\ created = {}
          /\ csv = <<>>
          /\ scanned.files = <<>>
          /\ total = 0
          /\ file_path = None
          /\ returned = None
          /\ Len(console) = 1

\* extract_id_from_folder has ended on a folder without a matching file
C14Witness ==
    /\ pc = "exited"
    /\ caller = "extract_id_from_folder"
    /\ folder = "no_match"
    /\ exit_status = Num(1)

(***************************************************************************)
(* C15: the spreadsheet step of process_folder that ends without having    *)
(* saved the spreadsheet.                                                  *)
(***************************************************************************)
\* this step ends the spreadsheet step, and the spreadsheet was not saved
C15SpreadsheetFails ==
    /\ pc = "reports"
    /\ generate_reports
    /\ pc' # "reports"
    /\ excel_path \notin created'

\* C15 as stated: a notice is printed and the run goes on with the CSV step
C15AsStated ==
    [][C15SpreadsheetFails =>
          (pc' = "csv" /\ Len(console') = Len(console) + 1)]_vars

\* what holds of C15: a run in which openpyxl could not be imported, or
\* there was nothing to report, has printed the notice, has written the CSV
\* when a path was given and lock records exist, and returns both lists
C15DegradesUnlessSaveRaises ==
    (/\ pc = "done"
     /\ caller = "process_folder"
     /\ generate_reports
     /\ excel_path \notin created)
    => /\ \E i \in 1..Len(console) :
              console[i] \in {"openpyxl not installed", "No results to generate Excel."}
       /\ returned = <<all_results, all_oracle_errors>>
       /\ (output_path # None /\ all_results # <<>>) =>
              (output_path \in created /\ Len(csv) = Len(all_results) + 1)

(***************************************************************************)
(* C19: every scan of process_folder starts with no identifier active, no  *)
(* wait timestamp held and no record; every record carries the name of the *)
(* file it was emitted from, and its identifier marker, its wait-time      *)
(* marker and its lock-result marker are lines of that one file, in that   *)
(* order; what process_folder accumulates are such records only.           *)
(***************************************************************************)
C19NoStateAcrossFiles ==
    /\ (pc = "lock" /\ read = 0) =>
          /\ current_del_id = None
          /\ wait_timestamp = None
          /\ wait_time_line = None
          /\ results = <<>>
    /\ \A r \in 1..Len(emitted) :
          LET f == emitted[r].file
              k == emitted[r].line
              rec == emitted[r].rec
              fl == scanned.files[f]
          IN  /\ rec.file = basename(LogFile(f))
              /\ \E i \in 1..(k - 1) : \E j \in (i + 1)..(k - 1) :
                    /\ IdMarker(fl[i]) /\ IdOf(fl[i]) = rec.del_id
                    /\ WaitMarker(fl[j]) /\ Parseable(fl[j])
                    /\ strftime(parse_timestamp(fl[j])) = rec.wait_start
                    /\ TerminalMarker(fl[k]) /\ Parseable(fl[k])
                    /\ strftime(parse_timestamp(fl[k])) = rec.result_time
    /\ \A a \in 1..Len(all_results) :
          \E r \in 1..Len(emitted) : emitted[r].rec = all_results[a]

\* the first file ends with an identifier marker and a stamped wait-time
\* marker, the second is one stamped lock-result marker, and the run has
\* returned no lock record
C19Witness ==
    /\ pc = "done"
    /\ caller = "process_folder"
    /\ Len(scanned.files) = 2
    /\ Len(scanned.files[1]) = 2
    /\ IdMarker(scanned.files[1][1])
    /\ WaitMarker(scanned.files[1][2]) /\ Parseable(scanned.files[1][2])
    /\ Len(scanned.files[2]) = 1
    /\ TerminalMarker(scanned.files[2][1]) /\ Parseable(scanned.files[2][1])
    /\ returned[1] = <<>>

(***************************************************************************)
(* C21: the line_number of every record is the position, counted from 1    *)
(* over all the lines read, of the line the record was made from; the      *)
(* records are in strictly increasing order of line_number, and they are   *)
(* what the call returns.                                                  *)
(***************************************************************************)
C21LineNumberIsPosition ==
    /\ \A r \in 1..Len(errors) :
          LET n == errors[r].line_number
          IN  /\ n \in 1..Len(lines)
              /\ Reportable(lines[n])
              /\ errors[r].error_code = "ORA-" \o FirstCode(lines[n])
              /\ errors[r].message = SubSeq(lines[n], ora_pattern(lines[n]), Len(lines[n]))
    /\ \A r \in 1..Len(errors) : \A q \in (r + 1)..Len(errors) :
          errors[r].line_number < errors[q].line_number
    /\ pc = "done" => returned = errors

\* a line without a code, a line skipped for the excluded code and two
\* lines with a record each, numbered 3 and 4
C21Witness ==
    /\ pc = "done"
    /\ Len(lines) = 4
    /\ ora_pattern(lines[1]) = 0
    /\ ora_pattern(lines[2]) # 0 /\ FirstCode(lines[2]) = "01403"
    /\ Len(returned) = 2
    /\ returned[1].line_number = 3
    /\ returned[2].line_number = 4

(***************************************************************************)
(* C22: the full_line of a record is its line when the line has at most    *)
(* 200 characters; when it has more it is the first 200 characters of the  *)
(* line and the three characters of the ellipsis, 203 characters.          *)
(***************************************************************************)
\* text is the first n characters of line
IsPrefixOfLength(text, line, n) ==
    /\ LineLen(text) = n
    /\ Len(text) <= Len(line)
    /\ \A i \in 1..(Len(text) - 1) : text[i] = line[i]
    /\ text # <<>> =>
          \/ Last(text) = line[Len(text)]
          \/ /\ Last(text).k = "part"
             /\ Last(text).of = line[Len(text)]
             /\ Last(text).n < TokLen(line[Len(text)])

C22FullLineTruncated ==
    \A r \in 1..Len(errors) :
        LET line == lines[errors[r].line_number]
            stored == errors[r].full_line
        IN  /\ LineLen(stored) <= 203
            /\ IF LineLen(line) <= 200
               THEN stored = line
               ELSE /\ Last(stored) = Dots
                    /\ IsPrefixOfLength(SubSeq(stored, 1, Len(stored) - 1), line, 200)

\* a record of a line of 200 characters, stored as it is, and a record of a
\* line of 201 characters, stored in 203
C22Witness ==
    /\ Len(errors) = 2
    /\ LineLen(lines[errors[1].line_number]) = 200
    /\ errors[1].full_line = lines[errors[1].line_number]
    /\ LineLen(lines[errors[2].line_number]) = 201
    /\ LineLen(errors[2].full_line) = 203

(***************************************************************************)
(* C23: a wait-time marker read while an identifier is active and a        *)
(* wait-start timestamp is held.                                           *)
(***************************************************************************)
C23WaitWhilePending ==
    /\ pc = "lock"
    /\ current_del_id # None
    /\ wait_timestamp # None
    /\ Len(lines') = Len(lines) + 1
    /\ WaitMarker(Last(lines'))

\* C23 as stated: the timestamp of the line replaces the one held, and when
\* the line has no timestamp that can be parsed none is held afterwards
C23AsStated ==
    [][C23WaitWhilePending =>
          /\ current_del_id' = current_del_id
          /\ results' = results
          /\ wait_timestamp' = IF Parseable(Last(lines'))
                               THEN parse_timestamp(Last(lines')) ELSE None]_vars

\* what holds of C23: the same when the line has a timestamp that is a date
\* or no bracketed timestamp; when it has one that is no date the scan ends
\* with ValueError and the timestamp held stays
C23ReplacesUnlessRaised ==
    [][C23WaitWhilePending =>
          /\ current_del_id' = current_del_id
          /\ results' = results
          /\ IF parse_timestamp(Last(lines')) = ValueError
             THEN pc' = "raised" /\ wait_timestamp' = wait_timestamp
             ELSE pc' = "lock" /\ wait_timestamp' = parse_timestamp(Last(lines'))]_vars

=============================================================================
